---- MODULE Spec2Model ----
(***************************************************************************)
(* GardenWebsite: the viewport transform engine (ZoomableImage), the       *)
(* marker interaction layer (PinLayer) and the App handlers that join      *)
(* them to the pin-storage service.                                        *)
(*                                                                         *)
(* Arithmetic.  The program computes in IEEE doubles; the model computes   *)
(* on fixed-point grids, rounding to the nearest grid point where a        *)
(* quotient is not exact:                                                  *)
(*   - a scale s is the integer s * SU            (SU grid points per 1.0) *)
(*   - a length or screen coordinate of p pixels is the integer p * PU     *)
(*   - a percentage q is the integer q * PCU                               *)
(* so that naturalWidth * scale, in position units, is 2 * nw * s exactly. *)
(* The input sets are chosen so that the cover scale is a grid point.      *)
(* Before the image has loaded naturalWidth and naturalHeight are 0 and    *)
(* the program divides by them: Infinity, NegInfinity and NaN are values   *)
(* of the model, with the rules of IEEE arithmetic.                        *)
(*                                                                         *)
(* React.  State set by a handler is visible to the next handler (every    *)
(* handler is followed by the render and the effects it causes before the  *)
(* next event is handled), so the closures the listeners hold always see   *)
(* the latest minScale, scale and pos.                                     *)
(***************************************************************************)
EXTENDS Integers, Sequences, FiniteSets, TLC

\* ---------------------------------------------------------------- grids
SU == 6 * 1000
PU == 2 * SU
PCU == 2 * 5

\* ------------------------------------------------- constants of the code
MaxZoomFactor == 5
ZoomIntensityNum == 3
ZoomIntensityDen == 2000
EaseNum == 1
EaseDen == 4
EpsDen == 1000
DRAG_THRESHOLD_PX == 4

\* ------------------------------------------------- bounds and input sets
\* Input events (wheel, mouse, resize) of one run of the viewport engine.
MaxEvents == 3

NaturalSizes == {<<16, 9>>}
InitialContainer == <<8, 6>>
Containers == {<<8, 6>>, <<16, 6>>}
MousePressPoints == {<<8, 6>>}
MousePoints == {<<0, 0>>, <<8, 6>>}
WheelPoints == {<<5, 3>>}
WheelDeltas == {-2000, 1}

\* User inputs of one run of the App.
MaxSteps == 5

PinContainers == {<<8, 6>>, <<8, 9>>}
ToolbarPoint == <<1, 1>>
ClickPoints == {<<4, 30>>}
PointerIds == {1, 2}
DownPoints == {<<4, 3>>}
MovePoints == {<<6, 5>>, <<8, 40>>}

\* Inputs of the coordinate conversions: percentages (in PCU), scales (in SU),
\* offsets (pixels) and natural sizes.
ConvPercents == {0, 1, 333, 500, 999, 100 * PCU}
ConvScales == {SU \div 2, SU, (10 * SU) \div 3}
ConvOffsets == {<<0, 0>>, <<-3, -2>>, <<2, 7>>}
ConvSizes == {<<16, 9>>, <<4, 3>>, <<1, 1>>}

\* ---------------------------------------------------------------- state
VARIABLES
  natural,        \* img.naturalWidth, img.naturalHeight (<<0, 0>> before load)
  container,      \* containerRef.current.clientWidth, clientHeight
  scale,          \* ZoomableImage state
  minScale,       \* ZoomableImage state
  pos,            \* ZoomableImage state: top-left of the image
  isDragging,     \* isDraggingRef
  dragStart,      \* dragStartRef
  targetScale,    \* targetScaleRef
  lastWheel,      \* lastWheelRef
  rafQueue,       \* callbacks waiting for the next animation frame, in order
  transformRef,   \* App: transformRef.current
  transformState, \* App: transformState
  imageSizeRef,   \* App: imageSizeRef.current
  layerImageSize, \* PinLayer: the imageSize prop of the last App render
  lastEv,         \* observation: the last viewport event handled
  events,         \* observation: number of input events handled
  conv,           \* the conversion under test: inputs, screen point, result
  panel,          \* DetailsPanel: its pin, state and the updates it asked for
  mode,           \* App state: "view" or "edit"
  pins,           \* App state: the local pin list
  selectedPinId,  \* App state
  isDetailsOpen,  \* App state
  cancelled,      \* App: the initial load's cancellation flag
  dragRef,        \* PinLayer: dragRef.current
  net,            \* requests to the pin service and their responses, in flight
  serverPins,     \* pin service: the stored pins
  nextId,         \* pin service: the next identifier
  serverClock,    \* pin service: the time
  reqCount,       \* observation: requests issued so far
  calls,          \* observation: onMovePin / onCommitMovePin calls of a drag
  obs,            \* observation: the pointer's drag session as the user sees it
  appEv,          \* observation: the last App event and the state before it
  steps           \* observation: number of user inputs handled

viewVars == <<natural, container, scale, minScale, pos, isDragging, dragStart,
              targetScale, lastWheel, rafQueue, transformRef, transformState,
              imageSizeRef, layerImageSize, lastEv, events>>
convVars == <<conv, panel>>
pinVars == <<mode, pins, selectedPinId, isDetailsOpen, cancelled, dragRef, net,
             serverPins, nextId, serverClock, reqCount, calls, obs, appEv, steps>>
vars == <<viewVars, convVars, pinVars>>
otherVars == <<convVars, pinVars>>

\* ------------------------------------------------------------ arithmetic
Abs(a) == IF a < 0 THEN -a ELSE a
Min(a, b) == IF a < b THEN a ELSE b
Max(a, b) == IF a > b THEN a ELSE b

\* a / b rounded to the nearest integer, b > 0.
RoundDiv(a, b) == (a + (b \div 2)) \div b

\* a * b / c rounded to the nearest integer, c > 0, without forming a * b.
RoundMulDiv(a, b, c) == (a \div c) * b + RoundDiv((a % c) * b, c)

Pt(x, y) == [x |-> x, y |-> y]
Px(p) == p * PU

\* The numbers that are not finite: no finite value of the model reaches them.
Infinity == 2 ^ 30
NegInfinity == 0 - Infinity
NaN == Infinity + 1

Fin(a) == a # NaN /\ a # Infinity /\ a # NegInfinity

\* a + b and a - b: Infinity - Infinity is NaN.
Neg(a) == IF a = NaN THEN NaN ELSE 0 - a
Add(a, b) ==
  IF a = NaN \/ b = NaN THEN NaN
  ELSE IF Fin(a) /\ Fin(b) THEN a + b
  ELSE IF Fin(b) THEN a
  ELSE IF Fin(a) \/ a = b THEN b
  ELSE NaN
Sub(a, b) == Add(a, Neg(b))

\* a * num / den, num / den a positive constant.
Scaled(a, num, den) == IF Fin(a) THEN RoundDiv(a * num, den) ELSE a

\* Math.max, Math.min: NaN if an argument is NaN.
MathMax(a, b) == IF a = NaN \/ b = NaN THEN NaN ELSE Max(a, b)
MathMin(a, b) == IF a = NaN \/ b = NaN THEN NaN ELSE Min(a, b)

\* c / n as a scale, c and n whole pixels: Infinity or NaN when n is 0.
Quot(c, n) ==
  IF n = 0 THEN (IF c = 0 THEN NaN ELSE Infinity) ELSE RoundDiv(c * SU, n)

\* n * s in position units, n whole pixels and s a scale: 0 * Infinity is NaN.
Times(n, s) ==
  IF s = NaN THEN NaN
  ELSE IF s = Infinity THEN (IF n = 0 THEN NaN ELSE Infinity)
  ELSE 2 * n * s

\* (c - sw) / 2.
Half(c, sw) ==
  IF sw = NaN THEN NaN
  ELSE IF sw = Infinity THEN NegInfinity
  ELSE RoundDiv(c - sw, 2)

\* ((client - p) / sw) * 100 in PCU, sw > 0.
PercentOf(client, p, sw) ==
  IF p = NaN \/ sw = NaN THEN NaN
  ELSE IF sw = Infinity THEN 0
  ELSE RoundMulDiv(client - p, 100 * PCU, sw)

\* p + (percent / 100) * sw.
ScreenOf(p, percent, sw) ==
  IF p = NaN \/ sw = NaN THEN NaN
  ELSE IF sw = Infinity THEN (IF percent = 0 THEN NaN ELSE Infinity)
  ELSE p + RoundMulDiv(percent, sw, 100 * PCU)

\* --------------------------------------------------------- ZoomableImage
clamp(value, min, max) == MathMin(max, MathMax(min, value))

\* The image's width and height on screen at scale s, in position units.
ScaledW(nat, s) == Times(nat[1], s)
ScaledH(nat, s) == Times(nat[2], s)

getBoundsFor(nat, nextScale, cs) ==
  [minX |-> MathMin(0, Sub(Px(cs[1]), ScaledW(nat, nextScale))),
   minY |-> MathMin(0, Sub(Px(cs[2]), ScaledH(nat, nextScale)))]

calculateMinScale(nat, cs) ==
  MathMax(Quot(cs[1], nat[1]), Quot(cs[2], nat[2]))

\* Mutant: the offset not halved.
centerImageNoHalf(nat, baseScale, cs) ==
  Pt(Sub(Px(cs[1]), ScaledW(nat, baseScale)),
     Sub(Px(cs[2]), ScaledH(nat, baseScale)))

centerImage(nat, baseScale, cs) ==
  Pt(Half(Px(cs[1]), ScaledW(nat, baseScale)),
     Half(Px(cs[2]), ScaledH(nat, baseScale)))

\* requestAnimationFrame callbacks.
ZoomCb == [kind |-> "zoom", t |-> [scale |-> 0, pos |-> Pt(0, 0)]]
SetTransformCb(t) == [kind |-> "setTransform", t |-> t]

\* Mutant: the callback requested last is cancelled, whichever it is.
cancelAnimationFrameLast(q) ==
  IF q = <<>> THEN q ELSE SubSeq(q, 1, Len(q) - 1)

\* cancelAnimationFrame(animationFrameRef.current): the handle is that of the
\* zoom callback requested last, which is the last one waiting if any waits.
RECURSIVE cancelAnimationFrame(_)
cancelAnimationFrame(q) ==
  IF q = <<>> THEN q
  ELSE IF q[Len(q)].kind = "zoom" THEN SubSeq(q, 1, Len(q) - 1)
  ELSE Append(cancelAnimationFrame(SubSeq(q, 1, Len(q) - 1)), q[Len(q)])

\* rel * newW, for rel = num / rect.width as handleWheel left it (rect.width
\* the width at the scale den) and newW = n * nextScale.
RelTimes(num, den, n, nextScale) ==
  LET newW == Times(n, nextScale)
  IN IF num = NaN \/ newW = NaN THEN NaN
     ELSE IF ~Fin(num) THEN (IF newW = 0 THEN NaN ELSE num)
     ELSE IF newW = Infinity
       THEN (IF num = 0 THEN NaN ELSE IF num > 0 THEN Infinity ELSE NegInfinity)
     ELSE IF newW = 0 THEN 0
     ELSE RoundMulDiv(num, nextScale, den)

computeZoomedPos(nat, nextScale, lw, cs) ==
  LET rawX == Sub(lw.x, RelTimes(lw.relXNum, lw.relDen, nat[1], nextScale))
      rawY == Sub(lw.y, RelTimes(lw.relYNum, lw.relDen, nat[2], nextScale))
      b == getBoundsFor(nat, nextScale, cs)
  IN Pt(clamp(rawX, b.minX, 0), clamp(rawY, b.minY, 0))

\* handleImageLoad with the image's natural size nat and the container cs.
\* setMinScale re-runs the effect that depends on minScale, whose cleanup
\* cancels the zoom frame that is waiting.
handleImageLoad(nat, cs) ==
  LET baseScale == calculateMinScale(nat, cs)
      centeredPos == centerImage(nat, baseScale, cs)
      t == [scale |-> baseScale, pos |-> centeredPos]
      q == IF baseScale # minScale THEN cancelAnimationFrame(rafQueue)
           ELSE rafQueue
  IN /\ imageSizeRef' = nat
     /\ minScale' = baseScale
     /\ targetScale' = baseScale
     /\ scale' = baseScale
     /\ pos' = centeredPos
     /\ transformRef' = t
     /\ rafQueue' = Append(q, SetTransformCb(t))

\* The image finishes loading.
ImageLoad(nat) ==
  /\ natural = <<0, 0>>
  /\ natural' = nat
  /\ handleImageLoad(nat, container)
  /\ lastEv' = [type |-> "load", deltaY |-> 0, prevTarget |-> targetScale]
  /\ UNCHANGED <<container, isDragging, dragStart, lastWheel, transformState,
                 layerImageSize, events>>

\* The window is resized: onResize.
Resize(cs) ==
  /\ cs # container
  /\ container' = cs
  /\ handleImageLoad(natural, cs)
  /\ lastEv' = [type |-> "resize", deltaY |-> 0, prevTarget |-> targetScale]
  /\ events' = events + 1
  /\ UNCHANGED <<natural, isDragging, dragStart, lastWheel, transformState,
                 layerImageSize>>

handleMouseDown(p) ==
  /\ isDragging' = TRUE
  /\ dragStart' = Pt(Sub(Px(p[1]), pos.x), Sub(Px(p[2]), pos.y))
  /\ lastEv' = [type |-> "mousedown", deltaY |-> 0, prevTarget |-> targetScale]
  /\ events' = events + 1
  /\ UNCHANGED <<natural, container, scale, minScale, pos, targetScale,
                 lastWheel, rafQueue, transformRef, transformState,
                 imageSizeRef, layerImageSize>>

\* mouseup, blur, mouseleave.
stopDragging ==
  /\ isDragging
  /\ isDragging' = FALSE
  /\ lastEv' = [type |-> "mouseup", deltaY |-> 0, prevTarget |-> targetScale]
  /\ UNCHANGED <<natural, container, scale, minScale, pos, dragStart,
                 targetScale, lastWheel, rafQueue, transformRef,
                 transformState, imageSizeRef, layerImageSize, events>>

handleMouseMove(p) ==
  /\ isDragging
  /\ LET b == getBoundsFor(natural, scale, container)
         nextPos == Pt(clamp(Sub(Px(p[1]), dragStart.x), b.minX, 0),
                       clamp(Sub(Px(p[2]), dragStart.y), b.minY, 0))
         t == [scale |-> scale, pos |-> nextPos]
     IN /\ pos' = nextPos
        /\ transformRef' = t
        /\ rafQueue' = Append(rafQueue, SetTransformCb(t))
  /\ lastEv' = [type |-> "mousemove", deltaY |-> 0, prevTarget |-> targetScale]
  /\ events' = events + 1
  /\ UNCHANGED <<natural, container, scale, minScale, isDragging, dragStart,
                 targetScale, lastWheel, transformState, imageSizeRef,
                 layerImageSize>>

\* handleWheel's nextTarget: zoomIntensity is ZoomIntensityNum / ZoomIntensityDen.
\* Mutant: the target clamped to [1, 5] instead of [minScale, 5 * minScale].
nextTargetUnitRange(deltaY) ==
  clamp(Sub(targetScale,
            RoundDiv(deltaY * ZoomIntensityNum * SU, ZoomIntensityDen)),
        SU, SU * MaxZoomFactor)

nextTarget(deltaY) ==
  clamp(Sub(targetScale,
            RoundDiv(deltaY * ZoomIntensityNum * SU, ZoomIntensityDen)),
        minScale, Scaled(minScale, MaxZoomFactor, 1))

\* (client - rect.left) / rect.width as a numerator over rect.width, or the
\* quotient itself where it is not finite.
Rel(num, width) ==
  IF num = NaN \/ width = NaN THEN NaN
  ELSE IF width = 0
    THEN (IF num = 0 THEN NaN ELSE IF num > 0 THEN Infinity ELSE NegInfinity)
  ELSE IF width = Infinity THEN (IF Fin(num) THEN 0 ELSE NaN)
  ELSE num

\* relX = relXNum / rect.width and relY = relYNum / rect.height, where
\* rect.left = pos.x, rect.top = pos.y, rect.width = naturalWidth * scale and
\* rect.height = naturalHeight * scale:
\* relXNum / ScaledW(natural, relDen), relYNum / ScaledH(natural, relDen).
handleWheel(deltaY, p) ==
  /\ lastWheel' = [x |-> Px(p[1]), y |-> Px(p[2]),
                   relXNum |-> Rel(Sub(Px(p[1]), pos.x), ScaledW(natural, scale)),
                   relYNum |-> Rel(Sub(Px(p[2]), pos.y), ScaledH(natural, scale)),
                   relDen |-> IF Fin(scale) THEN scale ELSE SU]
  /\ targetScale' = nextTarget(deltaY)
  /\ rafQueue' = Append(cancelAnimationFrame(rafQueue), ZoomCb)
  /\ lastEv' = [type |-> "wheel", deltaY |-> deltaY, prevTarget |-> targetScale]
  /\ events' = events + 1
  /\ UNCHANGED <<natural, container, scale, minScale, pos, isDragging,
                 dragStart, transformRef, transformState, imageSizeRef,
                 layerImageSize>>

\* One callback of an animation frame, on the frame's running state st:
\* [scale, pos, tref, tstate, size, nq], nq the callbacks requested for the
\* next frame.
smoothZoomStep(st) ==
  LET diff == Sub(targetScale, st.scale)
      snapped == targetScale
      nextScale == clamp(Add(st.scale, Scaled(diff, EaseNum, EaseDen)),
                         minScale, Scaled(minScale, MaxZoomFactor, 1))
      done == Fin(diff) /\ Abs(diff) * EpsDen < SU
      s == IF done THEN snapped ELSE nextScale
      nextPos == computeZoomedPos(natural, s, lastWheel, container)
      t == [scale |-> s, pos |-> nextPos]
      q1 == Append(st.nq, SetTransformCb(t))
  IN [st EXCEPT !.scale = s, !.pos = nextPos, !.tref = t,
                !.nq = IF done THEN q1 ELSE Append(q1, ZoomCb)]

RunCallback(cb, st) ==
  IF cb.kind = "zoom" THEN smoothZoomStep(st)
  ELSE [st EXCEPT !.tstate = cb.t, !.size = imageSizeRef]

RECURSIVE RunCallbacks(_, _)
RunCallbacks(q, st) ==
  IF q = <<>> THEN st ELSE RunCallbacks(Tail(q), RunCallback(Head(q), st))

\* An animation frame: every waiting callback runs, in the order requested.
AnimationFrame ==
  /\ rafQueue # <<>>
  /\ LET st == RunCallbacks(rafQueue,
                 [scale |-> scale, pos |-> pos, tref |-> transformRef,
                  tstate |-> transformState, size |-> layerImageSize,
                  nq |-> <<>>])
     IN /\ scale' = st.scale
        /\ pos' = st.pos
        /\ transformRef' = st.tref
        /\ transformState' = st.tstate
        /\ layerImageSize' = st.size
        /\ rafQueue' = st.nq
  /\ lastEv' = [type |-> "frame", deltaY |-> 0, prevTarget |-> targetScale]
  /\ UNCHANGED <<natural, container, minScale, isDragging, dragStart,
                 targetScale, lastWheel, imageSizeRef, events>>

\* -------------------------------------------------------------- PinLayer
clampPercent(value) == MathMax(0, MathMin(100 * PCU, value))

\* toScreen / toPercent with the transform and imageSize props; percentages
\* in PCU, screen coordinates in position units.
toScreen(xPercent, yPercent, transform, imageSize) ==
  [left |-> ScreenOf(transform.pos.x, xPercent,
                      ScaledW(imageSize, transform.scale)),
   top |-> ScreenOf(transform.pos.y, yPercent,
                     ScaledH(imageSize, transform.scale))]

\* Mutant: the division by the natural size, the scale left out.
toPercentUnscaled(clientX, clientY, transform, imageSize) ==
  [xPercent |-> clampPercent(PercentOf(clientX, transform.pos.x,
                                       ScaledW(imageSize, SU))),
   yPercent |-> clampPercent(PercentOf(clientY, transform.pos.y,
                                       ScaledH(imageSize, SU)))]

toPercent(clientX, clientY, transform, imageSize) ==
  [xPercent |-> clampPercent(PercentOf(clientX, transform.pos.x,
                                       ScaledW(imageSize, transform.scale))),
   yPercent |-> clampPercent(PercentOf(clientY, transform.pos.y,
                                       ScaledH(imageSize, transform.scale)))]

\* ------------------------------------------------------------------- App
NoPin == 0
NoInterval == 0
NeverWatered == 0

PinFields == {"id", "xPercent", "yPercent", "name", "type",
              "wateringIntervalDays", "lastWatered"}

BlankPin == [id |-> NoPin, xPercent |-> 0, yPercent |-> 0, name |-> "",
             type |-> "", wateringIntervalDays |-> NoInterval,
             lastWatered |-> NeverWatered]

\* An object with some of a pin's fields (a payload, a patch, a DTO): the
\* keys it carries and their values.
Partial(keys, val) == [keys |-> keys, val |-> val]
NoBody == Partial({}, BlankPin)

\* { ...pin, ...patchOrDto }
Spread(pin, o) ==
  [id |-> IF "id" \in o.keys THEN o.val.id ELSE pin.id,
   xPercent |-> IF "xPercent" \in o.keys THEN o.val.xPercent ELSE pin.xPercent,
   yPercent |-> IF "yPercent" \in o.keys THEN o.val.yPercent ELSE pin.yPercent,
   name |-> IF "name" \in o.keys THEN o.val.name ELSE pin.name,
   type |-> IF "type" \in o.keys THEN o.val.type ELSE pin.type,
   wateringIntervalDays |->
     IF "wateringIntervalDays" \in o.keys THEN o.val.wateringIntervalDays
     ELSE pin.wateringIntervalDays,
   lastWatered |->
     IF "lastWatered" \in o.keys THEN o.val.lastWatered ELSE pin.lastWatered]

\* { xPercent, yPercent }
Position(xPercent, yPercent) ==
  Partial({"xPercent", "yPercent"},
          [BlankPin EXCEPT !.xPercent = xPercent, !.yPercent = yPercent])

NEW_PIN_DEFAULTS ==
  Partial({"name", "type", "wateringIntervalDays"},
          [BlankPin EXCEPT !.name = "New little plant",
                           !.type = "Plantus unidentifiedus",
                           !.wateringIntervalDays = NoInterval])

\* A request of gardenApi: kind is list, create, move (patchPin of a drag),
\* update (patchPin of the panel), water or delete; phase is req until the
\* service has answered, then ok or err.
Request(kind, pinId, body) ==
  [kind |-> kind, phase |-> "req", pinId |-> pinId, body |-> body,
   dto |-> NoBody, data |-> <<>>]

NoPercent == [isNull |-> TRUE, xPercent |-> 0, yPercent |-> 0]
Percent(pc) == [isNull |-> FALSE, xPercent |-> pc.xPercent, yPercent |-> pc.yPercent]

NoDrag == [draggingPinId |-> NoPin, pointerId |-> 0, startClient |-> Pt(0, 0),
           lastPercent |-> NoPercent, hasMoved |-> FALSE]

NoCalls == [moves |-> 0, commits |-> 0, lastMove |-> NoPercent, commit |-> NoPercent]

\* The state the App and PinLayer handlers read and write, as one record.
Cur == [mode |-> mode, pins |-> pins, sel |-> selectedPinId,
        open |-> isDetailsOpen, drag |-> dragRef, net |-> net,
        reqCount |-> reqCount, calls |-> calls]

\* request(): the request leaves.
send(a, m) == [a EXCEPT !.net = Append(@, m), !.reqCount = @ + 1]

\* Mutant: { ...patchOrDto, ...pin }, the local fields over the response's.
updatePinLocalPinWins(a, pinId, patchOrDto) ==
  [a EXCEPT !.pins = [i \in 1..Len(a.pins) |->
                        IF a.pins[i].id = pinId
                        THEN Spread(a.pins[i], Partial({}, BlankPin))
                        ELSE a.pins[i]]]

updatePinLocal(a, pinId, patchOrDto) ==
  [a EXCEPT !.pins = [i \in 1..Len(a.pins) |->
                        IF a.pins[i].id = pinId
                        THEN Spread(a.pins[i], patchOrDto) ELSE a.pins[i]]]

App_clampPercent(value) == MathMax(0, MathMin(100 * PCU, value))

\* Mutant: the transform of the last render instead of transformRef.current.
addPinAtClientStale(a, clientX, clientY) ==
  IF imageSizeRef[1] = 0 \/ imageSizeRef[2] = 0 THEN a
  ELSE
    LET xPercent == PercentOf(clientX, transformState.pos.x,
                              ScaledW(imageSizeRef, transformState.scale))
        yPercent == PercentOf(clientY, transformState.pos.y,
                              ScaledH(imageSizeRef, transformState.scale))
        payload == Partial({"xPercent", "yPercent"} \cup NEW_PIN_DEFAULTS.keys,
                     [NEW_PIN_DEFAULTS.val EXCEPT
                        !.xPercent = App_clampPercent(xPercent),
                        !.yPercent = App_clampPercent(yPercent)])
    IN send(a, Request("create", NoPin, payload))

addPinAtClient(a, clientX, clientY) ==
  IF imageSizeRef[1] = 0 \/ imageSizeRef[2] = 0 THEN a
  ELSE
    LET xPercent == PercentOf(clientX, transformRef.pos.x,
                              ScaledW(imageSizeRef, transformRef.scale))
        yPercent == PercentOf(clientY, transformRef.pos.y,
                              ScaledH(imageSizeRef, transformRef.scale))
        payload == Partial({"xPercent", "yPercent"} \cup NEW_PIN_DEFAULTS.keys,
                     [NEW_PIN_DEFAULTS.val EXCEPT
                        !.xPercent = App_clampPercent(xPercent),
                        !.yPercent = App_clampPercent(yPercent)])
    IN send(a, Request("create", NoPin, payload))

\* e: [clientX, clientY (position units), ctrlKey].
handleTopLevelClick(a, e) ==
  LET a1 == IF a.mode = "edit" /\ e.ctrlKey
            THEN addPinAtClient(a, e.clientX, e.clientY) ELSE a
  IN IF ~a.open /\ a.sel # NoPin THEN [a1 EXCEPT !.sel = NoPin] ELSE a1

handleMovePin(a, pinId, next) ==
  LET a1 == updatePinLocal(a, pinId, Position(next.xPercent, next.yPercent))
  IN [a1 EXCEPT !.calls.moves = @ + 1, !.calls.lastMove = Percent(next)]

handleCommitMovePin(a, pinId, p) ==
  send([a EXCEPT !.calls.commits = @ + 1, !.calls.commit = Percent(p)],
       Request("move", pinId, Position(p.xPercent, p.yPercent)))

handleOpenPin(a, pinId) == [a EXCEPT !.sel = pinId]

handleClosePopup(a) == [a EXCEPT !.sel = NoPin]

handleMarkWatered(a, pinId) == send(a, Request("water", pinId, NoBody))

handleOpenDetails(a, pinId) == [a EXCEPT !.sel = pinId, !.open = TRUE]

handleCloseDetails(a) == [a EXCEPT !.open = FALSE, !.sel = NoPin]

handleUpdatePin(a, pinId, patch) == send(a, Request("update", pinId, patch))

handleDeletePin(a, pinId) == send(a, Request("delete", pinId, NoBody))

\* The toolbar button: setMode, and the click bubbles to the container's
\* onClick, which still sees the mode of the last render.
toggleMode(a, e) ==
  [handleTopLevelClick(a, e) EXCEPT
     !.mode = IF a.mode = "view" THEN "edit" ELSE "view"]

\* What each handler does when its request m has been answered.
\* Mutant: the response applied without a look at cancelled.
afterListPinsUncancelled(a, m) ==
  IF m.phase = "ok" THEN [a EXCEPT !.pins = m.data] ELSE a

afterListPins(a, m) ==
  IF m.phase = "ok" /\ ~cancelled THEN [a EXCEPT !.pins = m.data] ELSE a

afterCreatePin(a, m) ==
  IF m.phase = "ok" THEN [a EXCEPT !.pins = Append(@, m.dto.val)] ELSE a

\* handleCommitMovePin, handleUpdatePin, handleMarkWatered.
afterPatchPin(a, m) ==
  IF m.phase = "ok" THEN updatePinLocal(a, m.pinId, m.dto) ELSE a

\* Mutant: the pin filtered out whether or not deletePin succeeded.
afterDeletePinAlways(a, m) ==
  [a EXCEPT !.pins = SelectSeq(@, LAMBDA p : p.id # m.pinId),
            !.open = FALSE, !.sel = NoPin]

\* Mutant: the pin filtered out, the panel and the selection left alone.
afterDeletePinKeepsPanel(a, m) ==
  IF m.phase = "ok"
  THEN [a EXCEPT !.pins = SelectSeq(@, LAMBDA p : p.id # m.pinId)]
  ELSE a

afterDeletePin(a, m) ==
  IF m.phase = "ok"
  THEN [a EXCEPT !.pins = SelectSeq(@, LAMBDA p : p.id # m.pinId),
                 !.open = FALSE, !.sel = NoPin]
  ELSE a

afterResponse(a, m) ==
  CASE m.kind = "list" -> afterListPins(a, m)
    [] m.kind = "create" -> afterCreatePin(a, m)
    [] m.kind = "delete" -> afterDeletePin(a, m)
    [] OTHER -> afterPatchPin(a, m)

\* How the handler's promise settles once its request m is answered: every
\* handler catches the error of request() and logs it to the console, and
\* only handleUpdatePin throws it again, to DetailsPanel's handleSave.
handlerOutcome(m) ==
  IF m.phase = "err" /\ m.kind = "update" THEN "rejected" ELSE "fulfilled"

\* ------------------------------------------------- PinLayer: drag session
hasImageSize == layerImageSize[1] > 0 /\ layerImageSize[2] > 0

\* e: [pointerId, clientX, clientY (pixels)].
startDrag(a, e, pinId) ==
  IF a.mode # "edit" THEN a
  ELSE IF ~hasImageSize THEN a
  ELSE [a EXCEPT !.drag = [draggingPinId |-> pinId, pointerId |-> e.pointerId,
                           startClient |-> Pt(e.clientX, e.clientY),
                           lastPercent |-> NoPercent, hasMoved |-> FALSE]]

\* Math.hypot(dx, dy) < DRAG_THRESHOLD_PX, dx and dy whole pixels.
UnderThreshold(dx, dy) ==
  dx * dx + dy * dy < DRAG_THRESHOLD_PX * DRAG_THRESHOLD_PX

moveDrag(a, e) ==
  LET d == a.drag
      dx == e.clientX - d.startClient.x
      dy == e.clientY - d.startClient.y
      next == toPercent(Px(e.clientX), Px(e.clientY), transformState,
                        layerImageSize)
  IN IF d.draggingPinId = NoPin THEN a
     ELSE IF d.pointerId # e.pointerId THEN a
     ELSE IF ~hasImageSize THEN a
     ELSE IF ~d.hasMoved /\ UnderThreshold(dx, dy) THEN a
     ELSE handleMovePin([a EXCEPT !.drag.hasMoved = TRUE,
                                  !.drag.lastPercent = Percent(next)],
                        d.draggingPinId, next)

\* pointerup and pointercancel.
endDrag(a, e) ==
  LET d == a.drag
      a1 == [a EXCEPT !.drag = NoDrag]
  IN IF d.draggingPinId = NoPin THEN a
     ELSE IF d.pointerId # e.pointerId THEN a
     ELSE IF d.hasMoved /\ ~d.lastPercent.isNull
          THEN handleCommitMovePin(a1, d.draggingPinId, d.lastPercent)
          ELSE a1

\* ------------------------------------------------------- the pin service
\* listPins, createPin, patchPin, waterPin, deletePin as section 6 of the
\* specification gives them.
ServerHas(pinId) == \E i \in 1..Len(serverPins) : serverPins[i].id = pinId

ServerPin(pinId) ==
  serverPins[CHOOSE i \in 1..Len(serverPins) : serverPins[i].id = pinId]

Replace(ps, pin) ==
  [i \in 1..Len(ps) |-> IF ps[i].id = pin.id THEN pin ELSE ps[i]]

\* The service carries out request i and answers.
ServerOk(i) ==
  LET m == net[i]
      answer(dto, data) ==
        net' = [net EXCEPT ![i] = [m EXCEPT !.phase = "ok", !.dto = dto,
                                            !.data = data]]
  IN /\ m.phase = "req"
     /\ CASE m.kind = "list" ->
               /\ answer(NoBody, serverPins)
               /\ UNCHANGED <<serverPins, nextId, serverClock>>
          [] m.kind = "create" ->
               LET pin == [Spread(BlankPin, m.body) EXCEPT !.id = nextId]
               IN /\ serverPins' = Append(serverPins, pin)
                  /\ nextId' = nextId + 1
                  /\ answer(Partial(PinFields, pin), <<>>)
                  /\ UNCHANGED serverClock
          [] m.kind \in {"move", "update"} ->
               /\ ServerHas(m.pinId)
               /\ LET pin == Spread(ServerPin(m.pinId), m.body)
                  IN /\ serverPins' = Replace(serverPins, pin)
                     /\ answer(Partial(PinFields, pin), <<>>)
               /\ UNCHANGED <<nextId, serverClock>>
          [] m.kind = "water" ->
               /\ ServerHas(m.pinId)
               /\ LET pin == [ServerPin(m.pinId) EXCEPT
                                !.lastWatered = serverClock + 1]
                  IN /\ serverPins' = Replace(serverPins, pin)
                     /\ answer(Partial(PinFields, pin), <<>>)
               /\ serverClock' = serverClock + 1
               /\ UNCHANGED nextId
          [] m.kind = "delete" ->
               /\ ServerHas(m.pinId)
               /\ serverPins' = SelectSeq(serverPins, LAMBDA p : p.id # m.pinId)
               /\ answer(NoBody, <<>>)
               /\ UNCHANGED <<nextId, serverClock>>

\* The request fails: a transport or validation error.
ServerFail(i) ==
  /\ net[i].phase = "req"
  /\ net' = [net EXCEPT ![i].phase = "err"]
  /\ UNCHANGED <<serverPins, nextId, serverClock>>

InitialServerPins ==
  <<[id |-> 1, xPercent |-> 50 * PCU, yPercent |-> 50 * PCU, name |-> "Rose",
     type |-> "Shrub", wateringIntervalDays |-> 3, lastWatered |-> NeverWatered]>>

\* DetailsPanel patches: a new name, a new watering interval.
PanelPatches ==
  {Partial({"name"}, [BlankPin EXCEPT !.name = "Tulip"]),
   Partial({"wateringIntervalDays"}, [BlankPin EXCEPT !.wateringIntervalDays = 7])}

\* ------------------------------------------------------- DetailsPanel
\* A text is the sequence of its characters.
Whitespace == {" "}
Digits == {"0", "1", "2", "3", "4", "5", "6", "7", "8", "9"}
DigitValue(c) ==
  CASE c = "0" -> 0 [] c = "1" -> 1 [] c = "2" -> 2 [] c = "3" -> 3
    [] c = "4" -> 4 [] c = "5" -> 5 [] c = "6" -> 6 [] c = "7" -> 7
    [] c = "8" -> 8 [] c = "9" -> 9
DigitChar(d) == CHOOSE c \in Digits : DigitValue(c) = d

RECURSIVE trimStart(_)
trimStart(t) ==
  IF t # <<>> /\ Head(t) \in Whitespace THEN trimStart(Tail(t)) ELSE t

RECURSIVE trimEnd(_)
trimEnd(t) ==
  IF t # <<>> /\ t[Len(t)] \in Whitespace
  THEN trimEnd(SubSeq(t, 1, Len(t) - 1)) ELSE t

\* String.prototype.trim
trim(t) == trimEnd(trimStart(t))

\* (value ?? "").trim(); a missing text is the empty one.
normalizeText(value) == trim(value)

\* /^\d+$/.test(t)
OnlyDigits(t) == t # <<>> /\ \A i \in 1..Len(t) : t[i] \in Digits

\* Number(t) of a text of digits
RECURSIVE Number(_)
Number(t) ==
  IF t = <<>> THEN 0
  ELSE 10 * Number(SubSeq(t, 1, Len(t) - 1)) + DigitValue(t[Len(t)])

\* String(n) of a whole number n >= 0
RECURSIVE String(_)
String(n) ==
  IF n < 10 THEN <<DigitChar(n)>>
  ELSE Append(String(n \div 10), DigitChar(n % 10))

\* Mutant: n < 0 in place of n < 1.
parseIntervalFromZero(input) ==
  LET trimmed == normalizeText(input)
  IN IF trimmed = <<>> THEN [value |-> NoInterval, error |-> FALSE]
     ELSE IF ~OnlyDigits(trimmed) THEN [value |-> NoInterval, error |-> TRUE]
     ELSE IF Number(trimmed) < 0 THEN [value |-> NoInterval, error |-> TRUE]
     ELSE [value |-> Number(trimmed), error |-> FALSE]

\* error stands for the message "Give me whole days (1 or more)."
parseInterval(input) ==
  LET trimmed == normalizeText(input)
  IN IF trimmed = <<>> THEN [value |-> NoInterval, error |-> FALSE]
     ELSE IF ~OnlyDigits(trimmed) THEN [value |-> NoInterval, error |-> TRUE]
     ELSE IF Number(trimmed) < 1 THEN [value |-> NoInterval, error |-> TRUE]
     ELSE [value |-> Number(trimmed), error |-> FALSE]

\* The draft of the pin's fields.
draftOf(pin) ==
  [name |-> pin.name, type |-> pin.type,
   wateringIntervalDays |->
     IF pin.wateringIntervalDays = NoInterval THEN <<>>
     ELSE String(pin.wateringIntervalDays)]

\* The panel p: its pin prop, isEditing, draft, errors (the keys that carry
\* a message) and the onUpdatePin calls it awaits, oldest first.
resetDraftFromPin(p) == [p EXCEPT !.draft = draftOf(p.pin), !.errors = {}]

setField(p, key, value) ==
  [p EXCEPT !.draft =
     [name |-> IF key = "name" THEN value ELSE @.name,
      type |-> IF key = "type" THEN value ELSE @.type,
      wateringIntervalDays |->
        IF key = "wateringIntervalDays" THEN value ELSE @.wateringIntervalDays]]

handleEdit(p) == [p EXCEPT !.isEditing = TRUE]

handleCancel(p) == resetDraftFromPin([p EXCEPT !.isEditing = FALSE])

\* The fields handleSave finds at fault.
nextErrors(p) ==
  {k \in {"name"} : Len(normalizeText(p.draft.name)) = 0}
    \cup {k \in {"type"} : Len(normalizeText(p.draft.type)) = 0}
    \cup {k \in {"wateringIntervalDays"} :
            parseInterval(p.draft.wateringIntervalDays).error}

\* The changed fields and their new values.
patchOf(p) ==
  LET nameTrimmed == normalizeText(p.draft.name)
      typeTrimmed == normalizeText(p.draft.type)
      intervalParsed == parseInterval(p.draft.wateringIntervalDays)
  IN [keys |-> {k \in {"name"} : nameTrimmed # normalizeText(p.pin.name)}
                 \cup {k \in {"type"} : typeTrimmed # normalizeText(p.pin.type)}
                 \cup {k \in {"wateringIntervalDays"} :
                         intervalParsed.value # p.pin.wateringIntervalDays},
      name |-> nameTrimmed, type |-> typeTrimmed,
      wateringIntervalDays |-> intervalParsed.value]

\* Mutant: the errors are set and the save goes on.
handleSaveDespiteErrors(p) ==
  IF patchOf(p).keys = {}
  THEN [p EXCEPT !.errors = nextErrors(p), !.isEditing = FALSE]
  ELSE [p EXCEPT !.errors = nextErrors(p), !.awaited = Append(@, patchOf(p)),
                 !.sent = @ + 1]

\* handleSave up to its await.
handleSave(p) ==
  IF nextErrors(p) # {} THEN [p EXCEPT !.errors = nextErrors(p)]
  ELSE IF patchOf(p).keys = {}
  THEN [p EXCEPT !.errors = {}, !.isEditing = FALSE]
  ELSE [p EXCEPT !.errors = {}, !.awaited = Append(@, patchOf(p)),
                 !.sent = @ + 1]

\* onUpdatePin resolved: the App has merged the response into the pin, and
\* handleSave goes on after its await.
saveResolved(p) ==
  LET patch == Head(p.awaited)
  IN [p EXCEPT
        !.pin = [name |-> IF "name" \in patch.keys THEN patch.name ELSE @.name,
                 type |-> IF "type" \in patch.keys THEN patch.type ELSE @.type,
                 wateringIntervalDays |->
                   IF "wateringIntervalDays" \in patch.keys
                   THEN patch.wateringIntervalDays
                   ELSE @.wateringIntervalDays],
        !.isEditing = FALSE,
        !.awaited = Tail(@)]

\* onUpdatePin rejected: the catch of handleSave.
saveRejected(p) ==
  [p EXCEPT !.errors = @ \cup {"server"}, !.awaited = Tail(@)]

\* The panel as mounted on a pin; ev and before are observations: the last
\* thing that happened and, of a Save, the panel it found.
Shown(pin) ==
  [pin |-> pin, isEditing |-> FALSE, draft |-> draftOf(pin), errors |-> {},
   awaited |-> <<>>, sent |-> 0]
PanelIdle == [pc |-> "idle", ev |-> "", p |-> Shown([name |-> <<>>, type |-> <<>>,
                wateringIntervalDays |-> NoInterval]),
              before |-> Shown([name |-> <<>>, type |-> <<>>,
                wateringIntervalDays |-> NoInterval])]

\* ----------------------------------------------------------------- Init
InitTransform == [scale |-> SU, pos |-> Pt(0, 0)]

InitView ==
  /\ natural = <<0, 0>>
  /\ container = InitialContainer
  /\ scale = SU
  /\ minScale = SU
  /\ pos = Pt(0, 0)
  /\ isDragging = FALSE
  /\ dragStart = Pt(0, 0)
  /\ targetScale = SU
  /\ lastWheel = [x |-> 0, y |-> 0, relXNum |-> 0, relYNum |-> 0, relDen |-> SU]
  /\ rafQueue = <<>>
  /\ transformRef = InitTransform
  /\ transformState = InitTransform
  /\ imageSizeRef = <<0, 0>>
  /\ layerImageSize = <<0, 0>>
  /\ lastEv = [type |-> "init", deltaY |-> 0, prevTarget |-> SU]
  /\ events = 0

ConvIdle == [pc |-> "idle", xPercent |-> 0, yPercent |-> 0,
             transform |-> InitTransform, imageSize |-> <<0, 0>>,
             left |-> 0, top |-> 0, backX |-> 0, backY |-> 0]
InitConvIdle == conv = ConvIdle /\ panel = PanelIdle

\* -------------------------------------------------- observations, Init
serverVars == <<serverPins, nextId, serverClock>>

\* The drag session as the user sees it: overlapped when another pointer
\* started a session before this session's pointer was released; down holds
\* the pointers that are down on a pin.
NoObs == [active |-> FALSE, ended |-> FALSE, pointerId |-> 0, pinId |-> NoPin,
          startX |-> 0, startY |-> 0, crossed |-> FALSE, movesSinceCross |-> 0,
          overlapped |-> FALSE, down |-> {}]

\* The event being handled and the state it finds.
Ev(type, kind, pointerId, ctrlKey, x, y, pin) ==
  [type |-> type, kind |-> kind, pointerId |-> pointerId, ctrlKey |-> ctrlKey,
   clientX |-> x, clientY |-> y, pin |-> pin, mode |-> mode, pins |-> pins,
   sel |-> selectedPinId, open |-> isDetailsOpen, reqCount |-> reqCount,
   pinId |-> NoPin, keys |-> {}, outcome |-> ""]

InitPin ==
  /\ mode = "view"
  /\ pins = <<>>
  /\ selectedPinId = NoPin
  /\ isDetailsOpen = FALSE
  /\ cancelled = FALSE
  /\ dragRef = NoDrag
  /\ net = <<Request("list", NoPin, NoBody)>>
  /\ serverPins = InitialServerPins
  /\ nextId = Len(InitialServerPins) + 1
  /\ serverClock = 0
  /\ reqCount = 1
  /\ calls = NoCalls
  /\ obs = NoObs
  /\ appEv = [type |-> "init", kind |-> "", pointerId |-> 0, ctrlKey |-> FALSE,
              clientX |-> 0, clientY |-> 0, pin |-> BlankPin, mode |-> "view",
              pins |-> <<>>, sel |-> NoPin, open |-> FALSE, reqCount |-> 0,
              pinId |-> NoPin, keys |-> {}, outcome |-> ""]
  /\ steps = 0

InContainer(p) == p[1] <= container[1] /\ p[2] <= container[2]

CanInput == events < MaxEvents

DoImageLoad ==
  /\ \E nat \in NaturalSizes : ImageLoad(nat)
  /\ UNCHANGED otherVars
DoResize ==
  /\ \E cs \in Containers : CanInput /\ Resize(cs)
  /\ UNCHANGED otherVars
DoMouseDown ==
  /\ \E p \in MousePressPoints :
       CanInput /\ InContainer(p) /\ handleMouseDown(p)
  /\ UNCHANGED otherVars
DoMouseMove ==
  /\ \E p \in MousePoints : CanInput /\ InContainer(p) /\ handleMouseMove(p)
  /\ UNCHANGED otherVars
DoWheel ==
  /\ \E p \in WheelPoints, d \in WheelDeltas :
       CanInput /\ InContainer(p) /\ handleWheel(d, p)
  /\ UNCHANGED otherVars
DoStopDragging == stopDragging /\ UNCHANGED otherVars
DoAnimationFrame == AnimationFrame /\ UNCHANGED otherVars

\* The viewport engine: the image loads and input events arrive, in any
\* order.
NextView ==
  \/ DoImageLoad
  \/ DoResize
  \/ DoMouseDown
  \/ DoMouseMove
  \/ DoWheel
  \/ DoStopDragging
  \/ DoAnimationFrame

\* The App as mounted: nothing loaded, the pin list requested.
Init == InitView /\ InitConvIdle /\ InitPin

SpecView == Init /\ [][NextView]_vars

\* An animation frame would change the state: callbacks wait, and running
\* them does not lead back to this very state.
FrameDue ==
  /\ rafQueue # <<>>
  /\ LET st == RunCallbacks(rafQueue,
                 [scale |-> scale, pos |-> pos, tref |-> transformRef,
                  tstate |-> transformState, size |-> layerImageSize,
                  nq |-> <<>>])
     IN \/ <<st.scale, st.pos, st.tref, st.tstate, st.size, st.nq>>
             # <<scale, pos, transformRef, transformState, layerImageSize,
                  rafQueue>>
        \/ lastEv # [type |-> "frame", deltaY |-> 0, prevTarget |-> targetScale]

\* The browser runs the callbacks of requestAnimationFrame at the next frame:
\* a frame that is due does not wait forever. This is weak fairness of
\* DoAnimationFrame, with FrameDue for ENABLED <<DoAnimationFrame>>_vars.
FrameFairness == []<>(~FrameDue) \/ []<><<DoAnimationFrame>>_vars

SpecViewFair == SpecView /\ FrameFairness

\* The engine over its first MaxLayerEvents inputs, with fair frames.
MaxLayerEvents == 2
NextLayer == NextView /\ events' <= MaxLayerEvents

SpecLayerFair == Init /\ [][NextLayer]_vars /\ FrameFairness

\* The engine with resizes that leave the cover-fit scale as it is: the
\* window gets narrower or wider while the image's height decides the fit.
SameFitContainers == {<<8, 6>>, <<4, 6>>}
DoResizeSameFit ==
  /\ \E cs \in SameFitContainers : CanInput /\ Resize(cs)
  /\ UNCHANGED otherVars

NextResize == NextView \/ DoResizeSameFit

SpecResize == Init /\ [][NextResize]_vars

\* ------------------------------------------- the conversions, on their own
InitConv ==
  /\ InitView
  /\ InitPin
  /\ \E x \in ConvPercents, y \in ConvPercents, s \in ConvScales,
        o \in ConvOffsets, size \in ConvSizes :
       conv = [pc |-> "input", xPercent |-> x, yPercent |-> y,
               transform |-> [scale |-> s, pos |-> Pt(Px(o[1]), Px(o[2]))],
               imageSize |-> size, left |-> 0, top |-> 0,
               backX |-> 0, backY |-> 0]
  /\ panel = PanelIdle

ConvToScreen ==
  /\ conv.pc = "input"
  /\ LET sc == toScreen(conv.xPercent, conv.yPercent, conv.transform,
                        conv.imageSize)
     IN conv' = [conv EXCEPT !.pc = "screen", !.left = sc.left, !.top = sc.top]
  /\ UNCHANGED <<viewVars, pinVars, panel>>

ConvToPercent ==
  /\ conv.pc = "screen"
  /\ LET pc == toPercent(conv.left, conv.top, conv.transform, conv.imageSize)
     IN conv' = [conv EXCEPT !.pc = "percent", !.backX = pc.xPercent,
                             !.backY = pc.yPercent]
  /\ UNCHANGED <<viewVars, pinVars, panel>>

NextConv == ConvToScreen \/ ConvToPercent

SpecConv == InitConv /\ [][NextConv]_vars

\* ------------------------------------------- the details panel, on its own
\* The pins the panel is shown for, the texts typed into its fields and the
\* number of updates it asks for.
MaxSaves == 1
PanelPins ==
  {[name |-> <<"T">>, type |-> <<"R">>, wateringIntervalDays |-> 7],
   [name |-> <<"T">>, type |-> <<"R">>, wateringIntervalDays |-> NoInterval]}
NameTexts == {<<>>, <<" ">>, <<" ", "U">>}
TypeTexts == {<<" ">>, <<"S">>}
IntervalTexts == {<<>>, <<" ">>, <<"7", " ">>, <<"0">>, <<"0", "3">>, <<"a">>,
                  <<"-", "1">>, <<"1", ".", "5">>}

InitPanel ==
  /\ InitView
  /\ InitPin
  /\ conv = ConvIdle
  /\ \E pin \in PanelPins :
       panel = [pc |-> "shown", ev |-> "mount", p |-> Shown(pin),
                before |-> PanelIdle.before]

PanelStep(ev, p) ==
  /\ panel.pc = "shown"
  /\ panel' = [pc |-> "shown", ev |-> ev, p |-> p,
                before |-> IF ev = "save" THEN panel.p ELSE PanelIdle.before]
  /\ UNCHANGED <<viewVars, conv, pinVars>>

\* The Edit button is there while the panel is not editing; the inputs,
\* Save and Cancel while it is.
DoEdit == ~panel.p.isEditing /\ PanelStep("edit", handleEdit(panel.p))

DoSetField ==
  \E key \in {"name", "type", "wateringIntervalDays"} :
    \E value \in (CASE key = "name" -> NameTexts [] key = "type" -> TypeTexts
                     [] OTHER -> IntervalTexts) :
      panel.p.isEditing /\ PanelStep("type", setField(panel.p, key, value))

DoSave ==
  /\ panel.p.isEditing
  /\ handleSave(panel.p).sent <= MaxSaves
  /\ PanelStep("save", handleSave(panel.p))

DoCancel == panel.p.isEditing /\ PanelStep("cancel", handleCancel(panel.p))

DoSaveResolved ==
  panel.p.awaited # <<>> /\ PanelStep("resolved", saveResolved(panel.p))

DoSaveRejected ==
  panel.p.awaited # <<>> /\ PanelStep("rejected", saveRejected(panel.p))

NextPanel ==
  \/ DoEdit
  \/ DoSetField
  \/ DoSave
  \/ DoCancel
  \/ DoSaveResolved
  \/ DoSaveRejected

SpecPanel == InitPanel /\ [][NextPanel]_vars

\* ------------------------------------------------ the App and its inputs
\* The handler's result a becomes the state; a changed App state renders the
\* App again, and PinLayer then receives imageSizeRef.current.
Apply(a) ==
  /\ mode' = a.mode
  /\ pins' = a.pins
  /\ selectedPinId' = a.sel
  /\ isDetailsOpen' = a.open
  /\ dragRef' = a.drag
  /\ net' = a.net
  /\ reqCount' = a.reqCount
  /\ calls' = a.calls
  /\ layerImageSize' =
       IF <<a.mode, a.pins, a.sel, a.open>>
            # <<mode, pins, selectedPinId, isDetailsOpen>>
       THEN imageSizeRef ELSE layerImageSize

AppFrame ==
  UNCHANGED <<natural, container, scale, minScale, pos, isDragging, dragStart,
              targetScale, lastWheel, rafQueue, transformRef, transformState,
              imageSizeRef, lastEv, events, convVars, cancelled>>

\* A user input of the App or of PinLayer.
UserStep(ev) ==
  /\ ~cancelled
  /\ steps < MaxSteps
  /\ steps' = steps + 1
  /\ appEv' = ev
  /\ AppFrame
  /\ UNCHANGED serverVars

ClickEvent(p, ctrl) ==
  [clientX |-> Px(p[1]), clientY |-> Px(p[2]), ctrlKey |-> ctrl]
PointerEvent(pid, p) == [pointerId |-> pid, clientX |-> p[1], clientY |-> p[2]]

HasPin(pinId) == \E i \in 1..Len(pins) : pins[i].id = pinId
\* PinLayer renders the pins once it has the image size.
PinShown(pinId) == hasImageSize /\ HasPin(pinId)
PopupShown == PinShown(selectedPinId) /\ ~isDetailsOpen
PanelShown == isDetailsOpen /\ HasPin(selectedPinId)

\* A click on the toolbar button, Ctrl not held.
DoToggleMode ==
  /\ UserStep(Ev("toggle", "", 0, FALSE, ToolbarPoint[1], ToolbarPoint[2],
                 BlankPin))
  /\ Apply(toggleMode(Cur, ClickEvent(ToolbarPoint, FALSE)))
  /\ UNCHANGED obs

\* A click on the empty canvas.
DoClick ==
  \E p \in ClickPoints, ctrl \in BOOLEAN :
    /\ UserStep(Ev("click", "", 0, ctrl, p[1], p[2], BlankPin))
    /\ Apply(handleTopLevelClick(Cur, ClickEvent(p, ctrl)))
    /\ UNCHANGED obs

DoPinClick ==
  \E i \in 1..Len(pins) :
    /\ PinShown(pins[i].id)
    /\ UserStep([Ev("pinclick", "", 0, FALSE, 0, 0, BlankPin) EXCEPT
                   !.pinId = pins[i].id])
    /\ Apply(handleOpenPin(Cur, pins[i].id))
    /\ UNCHANGED obs

DoClosePopup ==
  /\ PopupShown
  /\ UserStep(Ev("closepopup", "", 0, FALSE, 0, 0, BlankPin))
  /\ Apply(handleClosePopup(Cur))
  /\ UNCHANGED obs

DoMarkWatered ==
  /\ PopupShown
  /\ UserStep(Ev("request", "water", 0, FALSE, 0, 0, BlankPin))
  /\ Apply(handleMarkWatered(Cur, selectedPinId))
  /\ UNCHANGED obs

DoOpenDetails ==
  /\ PopupShown
  /\ UserStep(Ev("opendetails", "", 0, FALSE, 0, 0, BlankPin))
  /\ Apply(handleOpenDetails(Cur, selectedPinId))
  /\ UNCHANGED obs

DoCloseDetails ==
  /\ PanelShown
  /\ UserStep(Ev("closedetails", "", 0, FALSE, 0, 0, BlankPin))
  /\ Apply(handleCloseDetails(Cur))
  /\ UNCHANGED obs

\* DetailsPanel: Save with a patch of the changed fields.
DoUpdatePin ==
  \E patch \in PanelPatches :
    /\ PanelShown
    /\ UserStep(Ev("request", "update", 0, FALSE, 0, 0, BlankPin))
    /\ Apply(handleUpdatePin(Cur, selectedPinId, patch))
    /\ UNCHANGED obs

\* DetailsPanel: Delete pin, confirmed.
DoDeletePin ==
  /\ PanelShown
  /\ UserStep(Ev("request", "delete", 0, FALSE, 0, 0, BlankPin))
  /\ Apply(handleDeletePin(Cur, selectedPinId))
  /\ UNCHANGED obs

\* A pointer that is not down on a pin goes down on one.
DoPointerDown ==
  \E i \in 1..Len(pins), pid \in PointerIds, p \in DownPoints :
    LET a == startDrag(Cur, PointerEvent(pid, p), pins[i].id)
        started == mode = "edit" /\ hasImageSize
        tracked == started /\ ~obs.active
    IN /\ PinShown(pins[i].id)
       /\ pid \notin obs.down
       /\ UserStep(Ev("pointerdown", "", pid, FALSE, p[1], p[2], BlankPin))
       /\ Apply(IF tracked THEN [a EXCEPT !.calls = NoCalls] ELSE a)
       /\ obs' = IF tracked
                 THEN [active |-> TRUE, ended |-> FALSE, pointerId |-> pid,
                       pinId |-> pins[i].id, startX |-> p[1], startY |-> p[2],
                       crossed |-> FALSE, movesSinceCross |-> 0,
                       overlapped |-> FALSE, down |-> obs.down \cup {pid}]
                 ELSE [obs EXCEPT !.overlapped = @ \/ started,
                                  !.down = @ \cup {pid}]

\* The pointer is down on a pin and some pin is rendered, the one that captured
\* it or one under it; the handlers ignore every other pointer.
PointerOnPin(pid) == pid \in obs.down /\ hasImageSize /\ pins # <<>>

\* calls counts what the events of the observed session's pointer emit.
Counted(own, a) == IF own THEN a ELSE [a EXCEPT !.calls = calls]

\* The pointer moves over a pin, or while a pin has captured it.
DoPointerMove ==
  \E pid \in PointerIds, p \in MovePoints :
    LET own == obs.active /\ obs.pointerId = pid
        dx == p[1] - obs.startX
        dy == p[2] - obs.startY
        crossed == obs.crossed
                     \/ dx * dx + dy * dy >= DRAG_THRESHOLD_PX * DRAG_THRESHOLD_PX
    IN /\ PointerOnPin(pid)
       /\ UserStep(Ev("pointermove", "", pid, FALSE, p[1], p[2], BlankPin))
       /\ Apply(Counted(own, moveDrag(Cur, PointerEvent(pid, p))))
       /\ obs' = IF own
                 THEN [obs EXCEPT !.crossed = crossed,
                                  !.movesSinceCross =
                                     IF crossed THEN @ + 1 ELSE 0]
                 ELSE obs

\* pointerup or pointercancel.
DoPointerUp ==
  \E pid \in PointerIds :
    LET own == obs.active /\ obs.pointerId = pid
    IN /\ PointerOnPin(pid)
       /\ UserStep(Ev("pointerup", IF own THEN "end" ELSE "", pid, FALSE, 0, 0,
                       BlankPin))
       /\ Apply(Counted(own, endDrag(Cur, PointerEvent(pid, <<0, 0>>))))
       /\ obs' = IF own
                 THEN [obs EXCEPT !.active = FALSE, !.ended = TRUE,
                                  !.down = @ \ {pid}]
                 ELSE [obs EXCEPT !.down = @ \ {pid}]

QuietEv(type, kind, pin) == appEv' = Ev(type, kind, 0, FALSE, 0, 0, pin)

DoServerOk ==
  \E i \in 1..Len(net) :
    /\ ServerOk(i)
    /\ QuietEv("server", net[i].kind, BlankPin)
    /\ UNCHANGED <<viewVars, convVars, mode, pins, selectedPinId, isDetailsOpen,
                   cancelled, dragRef, reqCount, calls, obs, steps>>

DoServerFail ==
  \E i \in 1..Len(net) :
    /\ ServerFail(i)
    /\ QuietEv("server", net[i].kind, BlankPin)
    /\ UNCHANGED <<viewVars, convVars, mode, pins, selectedPinId, isDetailsOpen,
                   cancelled, dragRef, reqCount, calls, obs, steps>>

RemoveAt(q, i) == SubSeq(q, 1, i - 1) \o SubSeq(q, i + 1, Len(q))

\* A response arrives and the handler that awaited it continues.
DoDeliver ==
  \E i \in 1..Len(net) :
    LET m == net[i]
    IN /\ m.phase \in {"ok", "err"}
       /\ Apply(afterResponse([Cur EXCEPT !.net = RemoveAt(net, i)], m))
       /\ appEv' = [Ev(m.phase, m.kind, 0, FALSE, 0, 0, m.dto.val) EXCEPT
                      !.pinId = m.pinId, !.keys = m.dto.keys,
                      !.outcome = handlerOutcome(m)]
       /\ AppFrame
       /\ UNCHANGED <<serverVars, obs, steps>>

DoPinImageLoad ==
  /\ ~cancelled
  /\ \E nat \in NaturalSizes : ImageLoad(nat)
  /\ QuietEv("load", "", BlankPin)
  /\ UNCHANGED <<convVars, mode, pins, selectedPinId, isDetailsOpen, cancelled,
                 dragRef, net, serverVars, reqCount, calls, obs, steps>>

\* The window is resized, before or after the image has loaded.
DoPinResize ==
  /\ ~cancelled
  /\ steps < MaxSteps
  /\ steps' = steps + 1
  /\ \E cs \in PinContainers : Resize(cs)
  /\ QuietEv("resize", "", BlankPin)
  /\ UNCHANGED <<convVars, mode, pins, selectedPinId, isDetailsOpen, cancelled,
                 dragRef, net, serverVars, reqCount, calls, obs>>

\* After the teardown the callbacks that wait only set the state of
\* components that are gone.
DoPinAnimationFrame ==
  /\ ~cancelled
  /\ AnimationFrame
  /\ QuietEv("frame", "", BlankPin)
  /\ UNCHANGED <<convVars, mode, pins, selectedPinId, isDetailsOpen, cancelled,
                 dragRef, net, serverVars, reqCount, calls, obs, steps>>

\* The App is torn down: the cleanup of the list effect sets cancelled and
\* that of ZoomableImage's effect cancels the zoom frame and removes the
\* listeners; no input reaches the handlers afterwards, while the requests
\* in flight are still answered and their handlers still continue. pins is
\* then the list the handlers have set last. The teardown modelled is one
\* that comes while the initial listPins request is unanswered or its
\* response undelivered.
DoUnmount ==
  /\ ~cancelled
  /\ \E i \in 1..Len(net) : net[i].kind = "list"
  /\ cancelled' = TRUE
  /\ rafQueue' = cancelAnimationFrame(rafQueue)
  /\ QuietEv("unmount", "", BlankPin)
  /\ UNCHANGED <<natural, container, scale, minScale, pos, isDragging,
                 dragStart, targetScale, lastWheel, transformRef,
                 transformState, imageSizeRef, layerImageSize, lastEv, events,
                 convVars, mode, pins, selectedPinId, isDetailsOpen, dragRef, net,
                 serverVars, reqCount, calls, obs, steps>>

NextPin ==
  \/ DoPinImageLoad
  \/ DoPinResize
  \/ DoPinAnimationFrame
  \/ DoToggleMode
  \/ DoClick
  \/ DoPinClick
  \/ DoClosePopup
  \/ DoMarkWatered
  \/ DoOpenDetails
  \/ DoCloseDetails
  \/ DoUpdatePin
  \/ DoDeletePin
  \/ DoPointerDown
  \/ DoPointerMove
  \/ DoPointerUp
  \/ DoServerOk
  \/ DoServerFail
  \/ DoDeliver

SpecPin == Init /\ [][NextPin]_vars

\* The App over a service that holds two pins from the start.
TwoServerPins ==
  Append(InitialServerPins,
         [id |-> 2, xPercent |-> 25 * PCU, yPercent |-> 50 * PCU,
          name |-> "Fern", type |-> "Fern", wateringIntervalDays |-> NoInterval,
          lastWatered |-> NeverWatered])

InitTwoPins ==
  /\ InitView
  /\ InitConvIdle
  /\ mode = "view"
  /\ pins = <<>>
  /\ selectedPinId = NoPin
  /\ isDetailsOpen = FALSE
  /\ cancelled = FALSE
  /\ dragRef = NoDrag
  /\ net = <<Request("list", NoPin, NoBody)>>
  /\ serverPins = TwoServerPins
  /\ nextId = Len(TwoServerPins) + 1
  /\ serverClock = 0
  /\ reqCount = 1
  /\ calls = NoCalls
  /\ obs = NoObs
  /\ appEv = [Ev("init", "", 0, FALSE, 0, 0, BlankPin) EXCEPT !.reqCount = 0]
  /\ steps = 0

SpecTwoPins == InitTwoPins /\ [][NextPin]_vars

\* The App with its teardown.
NextTeardown == NextPin \/ DoUnmount

SpecTeardown == Init /\ [][NextTeardown]_vars

\* ------------------------------------------------- viewport engine claims
Loaded == natural # <<0, 0>>

\* min(0, containerSize - naturalSize * s) <= p <= 0 on both axes.
WithinPanBounds(s, p) ==
  /\ p.x <= 0
  /\ p.y <= 0
  /\ (Px(container[1]) - ScaledW(natural, s) <= p.x \/ 0 <= p.x)
  /\ (Px(container[2]) - ScaledH(natural, s) <= p.y \/ 0 <= p.y)

\* m = max(containerW / naturalW, containerH / naturalH), cross-multiplied.
IsCoverScale(m) ==
  /\ m * natural[1] >= container[1] * SU
  /\ m * natural[2] >= container[2] * SU
  /\ (m * natural[1] = container[1] * SU \/ m * natural[2] = container[2] * SU)

\* C1: once the image has loaded, the transform emitted last (the one the
\* observer transformRef holds) has its offset within
\* [min(0, containerSize - naturalSize * scale), 0] on both axes, for the scale
\* emitted with it, after any pan move, wheel event, zoom frame and resize.
C1_EmittedWithinBounds ==
  Loaded => WithinPanBounds(transformRef.scale, transformRef.pos)

\* A pan move after load has emitted an offset that is not a number: the
\* mouse went down before load, on the offset a resize before load had left.
C1_NaNEmitted ==
  /\ Loaded
  /\ lastEv.type = "mousemove"
  /\ transformRef.pos = Pt(NaN, NaN)
  /\ Fin(transformRef.scale)

\* The drag origin and the wheel anchor are numbers.
FiniteAnchors ==
  /\ Fin(dragStart.x)
  /\ Fin(dragStart.y)
  /\ Fin(lastWheel.relXNum)
  /\ Fin(lastWheel.relYNum)

\* What remains of C1: the transform emitted after load by an event whose
\* drag origin and wheel anchor are numbers is within the pan bounds.
EmittedWithinBoundsWhenFinite ==
  (Loaded /\ FiniteAnchors) =>
    WithinPanBounds(transformRef.scale, transformRef.pos)

\* C2: once the image has loaded the image covers the container: on both
\* axes offset <= 0 and offset + naturalSize * scale >= containerSize, for the
\* container size of that state.
C2_ImageCoversContainer ==
  Loaded =>
    /\ pos.x <= 0
    /\ pos.y <= 0
    /\ Add(pos.x, ScaledW(natural, scale)) >= Px(container[1])
    /\ Add(pos.y, ScaledH(natural, scale)) >= Px(container[2])
    /\ Fin(pos.x)
    /\ Fin(pos.y)

\* The loaded image at its cover scale has no offset: it is not drawn over the
\* container.
C2_NaNOffset ==
  /\ Loaded
  /\ scale = minScale
  /\ IsCoverScale(minScale)
  /\ pos.x = NaN

\* What remains of C2: the loaded image covers the container while the drag
\* origin and the wheel anchor are numbers.
ImageCoversContainerWhenFinite ==
  (Loaded /\ FiniteAnchors) =>
    /\ pos.x <= 0
    /\ pos.y <= 0
    /\ pos.x + ScaledW(natural, scale) >= Px(container[1])
    /\ pos.y + ScaledH(natural, scale) >= Px(container[2])

\* C6: once the image has loaded, minScale is max(containerW / naturalW,
\* containerH / naturalH) of the current container and the zoom target lies in
\* [minScale, 5 * minScale]; right after a wheel event, before load too, the
\* target is previousTarget - deltaY * zoomIntensity clamped into
\* [minScale, 5 * minScale] (Infinity when minScale is Infinity).
C6_WheelTargetClamped ==
  /\ Loaded =>
       /\ IsCoverScale(minScale)
       /\ minScale <= targetScale
       /\ targetScale <= MaxZoomFactor * minScale
  /\ (lastEv.type = "wheel" /\ minScale = Infinity) => targetScale = Infinity
  /\ (lastEv.type = "wheel" /\ minScale # Infinity) =>
       LET rawD == lastEv.prevTarget * ZoomIntensityDen
                     - lastEv.deltaY * ZoomIntensityNum * SU
           tD == targetScale * ZoomIntensityDen
           loD == minScale * ZoomIntensityDen
           hiD == MaxZoomFactor * minScale * ZoomIntensityDen
       IN /\ Fin(minScale)
          /\ Fin(lastEv.prevTarget)
          /\ rawD < loD => tD = loD
          /\ rawD > hiD => tD = hiD
          /\ (loD <= rawD /\ rawD <= hiD) => tD = rawD

\* C6 witness: a wheel event after a resize, zooming in past 5 * minScale.
C6_Witness ==
  /\ Loaded
  /\ lastEv.type = "wheel"
  /\ container # InitialContainer
  /\ lastEv.prevTarget * ZoomIntensityDen - lastEv.deltaY * ZoomIntensityNum * SU
       > MaxZoomFactor * minScale * ZoomIntensityDen
  /\ targetScale = MaxZoomFactor * minScale

\* C7: right after the image-load event and after every resize, minScale is
\* the cover scale, the rendered scale and the zoom target equal it, the
\* offset is ((containerW - naturalW * minScale) / 2, (containerH - naturalH *
\* minScale) / 2), and that transform and the natural size have been emitted.
\* On a resize before load naturalW and naturalH are 0: c / 0 is Infinity and
\* (c - 0 * Infinity) / 2 is NaN.
C7_LoadAndResizeCenter ==
  lastEv.type \in {"load", "resize"} =>
    /\ Loaded =>
         /\ IsCoverScale(minScale)
         /\ 2 * pos.x = Px(container[1]) - ScaledW(natural, minScale)
         /\ 2 * pos.y = Px(container[2]) - ScaledH(natural, minScale)
    /\ ~Loaded => minScale = Infinity /\ pos = Pt(NaN, NaN)
    /\ scale = minScale
    /\ targetScale = minScale
    /\ transformRef = [scale |-> scale, pos |-> pos]
    /\ rafQueue # <<>>
    /\ rafQueue[Len(rafQueue)] = SetTransformCb(transformRef)
    /\ imageSizeRef = natural

\* C7 witness: a resize while the zoom target was above the new minScale and
\* the image was not centered.
C7_Witness ==
  /\ Loaded
  /\ lastEv.type = "resize"
  /\ lastEv.prevTarget > minScale
  /\ pos.x < 0


\* ------------------------------------------------------ conversion claims
\* C5: for xPercent, yPercent in [0, 100], a transform with scale > 0 and a
\* natural size > 0, toPercent(toScreen(xPercent, yPercent)) is (xPercent,
\* yPercent), on the percentage grid of 1 / PCU.
C5_RoundTrip ==
  conv.pc = "percent" =>
    /\ conv.backX = conv.xPercent
    /\ conv.backY = conv.yPercent

\* C5 witness: a round trip of an interior point under an offset, zoomed
\* transform.
C5_Witness ==
  /\ conv.pc = "percent"
  /\ conv.xPercent = 333
  /\ conv.yPercent = 999
  /\ conv.transform.scale > SU
  /\ conv.transform.pos.x < 0
  /\ conv.backX = 333

\* ------------------------------------------------------ pin layer claims
InRange(v) == 0 <= v /\ v <= 100 * PCU
PercentInRange(pc) == InRange(pc.xPercent) /\ InRange(pc.yPercent)

\* C3: no commit is issued before the observed session's pointer is released
\* or cancelled; at the release a session whose pointer never reached 4px from
\* the pointer-down point has issued none, and one whose pointer did has issued
\* exactly one, a patchPin of the session's pin carrying the last clamped
\* percentage position computed during the session.
C3_DragCommit ==
  /\ obs.active => calls.commits = 0
  /\ obs.ended /\ ~obs.crossed => calls.commits = 0
  /\ obs.ended /\ obs.crossed =>
       /\ calls.commits = 1
       /\ ~calls.commit.isNull
       /\ calls.commit = calls.lastMove
  /\ appEv.type = "pointerup" /\ appEv.kind = "end" =>
       IF obs.crossed
       THEN /\ reqCount = appEv.reqCount + 1
            /\ net # <<>>
            /\ net[Len(net)] =
                 Request("move", obs.pinId,
                         Position(calls.lastMove.xPercent,
                                  calls.lastMove.yPercent))
       ELSE reqCount = appEv.reqCount

\* The session's pointer was released after it had reached 4px, and no commit
\* was issued.
C3_LostCommit ==
  /\ appEv.type = "pointerup"
  /\ appEv.kind = "end"
  /\ obs.crossed
  /\ calls.commits = 0
  /\ reqCount = appEv.reqCount

\* What C3 states holds of every session that no other session overlaps.
DragCommitWhenAlone == obs.overlapped \/ C3_DragCommit

\* C4: no live position update is emitted while the pointer of the observed
\* session has not reached 4px from the start point, and once it has, each
\* pointer-move of the session's pointer emits exactly one, also when the
\* pointer is back within 4px of the start point.
C4_LiveUpdatesAfterThreshold ==
  obs.active \/ obs.ended =>
    /\ ~obs.crossed => calls.moves = 0 /\ calls.lastMove.isNull
    /\ calls.moves = obs.movesSinceCross
    /\ obs.active /\ appEv.type = "pointermove" /\ obs.crossed
         /\ appEv.pointerId = obs.pointerId =>
         /\ ~calls.lastMove.isNull
         /\ \A i \in 1..Len(pins) :
              pins[i].id = obs.pinId =>
                /\ pins[i].xPercent = calls.lastMove.xPercent
                /\ pins[i].yPercent = calls.lastMove.yPercent

\* A pointer-move of the session's pointer, past the threshold, emitted no
\* update.
C4_LostUpdate ==
  /\ obs.active
  /\ obs.crossed
  /\ appEv.type = "pointermove"
  /\ appEv.pointerId = obs.pointerId
  /\ calls.moves < obs.movesSinceCross

\* What C4 states holds of every session that no other session overlaps.
LiveUpdatesWhenAlone == obs.overlapped \/ C4_LiveUpdatesAfterThreshold

\* C8: every xPercent and yPercent in a createPin payload, in a live drag
\* update, in a move commit and in the local pin list lies in [0, 100].
C8_PercentsInRange ==
  /\ \A i \in 1..Len(net) :
       net[i].kind \in {"create", "move"} => PercentInRange(net[i].body.val)
  /\ \A i \in 1..Len(pins) : PercentInRange(pins[i])
  /\ PercentInRange(calls.lastMove)
  /\ PercentInRange(calls.commit)
  /\ PercentInRange(dragRef.lastPercent)

\* A live drag update has written NaN into the local pin list.
C8_NaNStored ==
  /\ appEv.type = "pointermove"
  /\ obs.active
  /\ ~calls.lastMove.isNull
  /\ calls.lastMove.xPercent = NaN
  /\ \E i \in 1..Len(pins) : pins[i].xPercent = NaN /\ pins[i].yPercent = NaN

\* value is d * 100 / w rounded to the nearest tenth of a percent, clamped.
IsClampedPercentOf(value, d, w) ==
  IF 2 * d * (100 * PCU) <= w THEN value = 0
  ELSE IF d >= w THEN value = 100 * PCU
  ELSE 2 * Abs(value * w - d * (100 * PCU)) <= w

ClickIssuesCreate ==
  appEv.mode = "edit" /\ appEv.ctrlKey /\ imageSizeRef[1] > 0 /\ imageSizeRef[2] > 0

\* C9: a click on the canvas issues a createPin request exactly when the mode
\* is edit, Ctrl is held and the natural image size is known; the payload's
\* position is the click point under the transform the engine emitted last,
\* with the new-pin defaults; a successful createPin appends the returned pin
\* to the end of the pin list.
C9_CreateOnCtrlClick ==
  /\ appEv.type = "click" =>
       IF ClickIssuesCreate
       THEN /\ reqCount = appEv.reqCount + 1
            /\ net # <<>>
            /\ LET m == net[Len(net)]
               IN /\ m.kind = "create"
                  /\ m.phase = "req"
                  /\ m.body.keys = {"xPercent", "yPercent", "name", "type",
                                    "wateringIntervalDays"}
                  /\ m.body.val.name = "New little plant"
                  /\ m.body.val.type = "Plantus unidentifiedus"
                  /\ m.body.val.wateringIntervalDays = NoInterval
                  /\ IsClampedPercentOf(m.body.val.xPercent,
                                        Px(appEv.clientX) - transformRef.pos.x,
                                        ScaledW(imageSizeRef, transformRef.scale))
                  /\ IsClampedPercentOf(m.body.val.yPercent,
                                        Px(appEv.clientY) - transformRef.pos.y,
                                        ScaledH(imageSizeRef, transformRef.scale))
       ELSE reqCount = appEv.reqCount
  /\ natural # <<0, 0>> =>
       transformRef = [scale |-> scale, pos |-> pos]
  /\ appEv.type = "ok" /\ appEv.kind = "create" =>
       pins = Append(appEv.pins, appEv.pin)

\* A Ctrl+click in edit mode while the last render still has an older transform.
C9_Witness ==
  /\ appEv.type = "click"
  /\ ClickIssuesCreate
  /\ transformState # transformRef
  /\ net[Len(net)].kind = "create"
  /\ net[Len(net)].body.val.xPercent = 50 * PCU

\* C10: the delivery of a failed request leaves the pin list, the selection and
\* the panel state as they were immediately before it.
C10_FailureLeavesState ==
  appEv.type = "err" =>
    /\ pins = appEv.pins
    /\ selectedPinId = appEv.sel
    /\ isDetailsOpen = appEv.open

\* A failed delete of the pin the open panel shows.
C10_Witness ==
  /\ appEv.type = "err"
  /\ appEv.kind = "delete"
  /\ isDetailsOpen
  /\ HasPin(selectedPinId)

\* ------------------------------------------------- persistence failures
Mutations == {"create", "move", "update", "water", "delete"}

\* C11: when a create, move, update, water or delete request fails, the
\* handler that issued it ends with an error outcome its caller sees (its
\* promise is rejected), and it issues no further request.
C11_FailureSurfaced ==
  (appEv.type = "err" /\ appEv.kind \in Mutations) =>
    /\ appEv.outcome = "rejected"
    /\ reqCount = appEv.reqCount

\* A failed water request, and handleMarkWatered's promise fulfilled.
C11_SwallowedFailure ==
  /\ appEv.type = "err"
  /\ appEv.kind = "water"
  /\ appEv.outcome = "fulfilled"
  /\ reqCount = appEv.reqCount

\* What holds of C11: no handler retries, and handleUpdatePin rejects.
NoRetryAndUpdateRejects ==
  (appEv.type = "err" /\ appEv.kind \in Mutations) =>
    /\ reqCount = appEv.reqCount
    /\ appEv.kind = "update" => appEv.outcome = "rejected"

\* C12: when a delete request for a pin succeeds, the pin is no longer in the
\* local pin list, and if it was the selected pin then selectedPinId is none
\* and isDetailsOpen is false.
C12_DeleteRemovesAndCloses ==
  (appEv.type = "ok" /\ appEv.kind = "delete") =>
    /\ ~HasPin(appEv.pinId)
    /\ appEv.sel = appEv.pinId => (selectedPinId = NoPin /\ ~isDetailsOpen)

\* A delete succeeded for the pin the panel was open on.
C12_Witness ==
  /\ appEv.type = "ok"
  /\ appEv.kind = "delete"
  /\ appEv.open
  /\ appEv.sel = appEv.pinId
  /\ \E i \in 1..Len(appEv.pins) : appEv.pins[i].id = appEv.pinId

\* ------------------------------------------------------------ selection
\* C13: while the details panel is open, a click on a marker leaves
\* selectedPinId, and so the pin the panel shows, as it was.
C13_PanelKeepsSelection ==
  (appEv.type = "pinclick" /\ appEv.open) => selectedPinId = appEv.sel

\* The panel was open on one pin, another marker was clicked, and the panel
\* now shows that other pin.
C13_PanelSwitchedPin ==
  /\ appEv.type = "pinclick"
  /\ appEv.open
  /\ appEv.sel # NoPin
  /\ selectedPinId = appEv.pinId
  /\ selectedPinId # appEv.sel
  /\ PanelShown

\* PinLayer: isActive, and the popups it renders (by position in the list).
isActive(pin) == pin.id = selectedPinId /\ ~isDetailsOpen
VisiblePopups == {i \in 1..Len(pins) : hasImageSize /\ isActive(pins[i])}

\* C14: at most one popup is visible, none while the details panel is open,
\* and a click on another marker while a popup is shown selects that marker,
\* so the popup of the pin selected before is no longer visible.
C14_AtMostOnePopup ==
  /\ Cardinality(VisiblePopups) <= 1
  /\ isDetailsOpen => VisiblePopups = {}
  /\ (appEv.type = "pinclick" /\ ~appEv.open
        /\ appEv.sel # NoPin /\ appEv.sel # appEv.pinId) =>
       /\ selectedPinId = appEv.pinId
       /\ \A i \in VisiblePopups : pins[i].id # appEv.sel

\* Two popups at once: the created pin is twice in the list and selected.
C14_TwoPopups == Cardinality(VisiblePopups) > 1

\* What holds of C14 where the ids in the local pin list are distinct.
DistinctIds == \A i, j \in 1..Len(pins) : pins[i].id = pins[j].id => i = j
OnePopupWhenIdsDistinct ==
  /\ DistinctIds => Cardinality(VisiblePopups) <= 1
  /\ isDetailsOpen => VisiblePopups = {}
  /\ (appEv.type = "pinclick" /\ ~appEv.open
        /\ appEv.sel # NoPin /\ appEv.sel # appEv.pinId) =>
       /\ selectedPinId = appEv.pinId
       /\ \A i \in VisiblePopups : pins[i].id # appEv.sel

\* C15: a click on the empty canvas sets the selection to none when the
\* details panel is closed; when the panel is open it changes neither
\* selectedPinId nor isDetailsOpen nor the pin list and issues no request,
\* in view and in edit mode, with and without Ctrl.
C15_CanvasClick ==
  appEv.type = "click" =>
    /\ ~appEv.open => selectedPinId = NoPin
    /\ appEv.open =>
         /\ selectedPinId = appEv.sel
         /\ isDetailsOpen
         /\ pins = appEv.pins
         /\ reqCount = appEv.reqCount

\* A Ctrl+click in edit mode with the panel open has sent a request.
C15_CreateWithPanelOpen ==
  /\ appEv.type = "click"
  /\ appEv.open
  /\ appEv.mode = "edit"
  /\ appEv.ctrlKey
  /\ reqCount = appEv.reqCount + 1
  /\ net[Len(net)].kind = "create"

\* What holds of C15: the selection, the panel and the list are as the claim
\* says, and a request leaves only on Ctrl+click in edit mode.
CanvasClickButCreate ==
  appEv.type = "click" =>
    /\ ~appEv.open => selectedPinId = NoPin
    /\ appEv.open =>
         /\ selectedPinId = appEv.sel
         /\ isDetailsOpen
         /\ pins = appEv.pins
         /\ ~(appEv.mode = "edit" /\ appEv.ctrlKey) => reqCount = appEv.reqCount

\* ------------------------------------------------- before the image loads
\* C16: while the natural image size is unknown, pan moves, wheel events,
\* zoom frames and resize events compute nothing: scale, offset and target
\* scale keep their initial values, no transform is emitted and no frame is
\* requested; no pin is created and no drag session starts.
C16_IdleBeforeLoad ==
  ~Loaded =>
    /\ scale = SU
    /\ pos = Pt(0, 0)
    /\ targetScale = SU
    /\ transformRef = InitTransform
    /\ transformState = InitTransform
    /\ rafQueue = <<>>
    /\ reqCount = 1
    /\ dragRef = NoDrag

\* Before the load a resize has emitted a transform of infinite scale.
C16_TransformBeforeLoad ==
  /\ ~Loaded
  /\ lastEv.type = "resize"
  /\ scale = Infinity
  /\ transformRef.scale = Infinity
  /\ transformRef.pos.x = NaN

\* What holds of C16: before the load no pin is created and no drag starts.
PinActionsWaitForSize ==
  ~Loaded => (\A i \in 1..Len(net) : net[i].kind = "list") /\ dragRef = NoDrag

\* ------------------------------------------------------ zoom animation
\* The zoom frame callbacks that wait for the next animation frame.
ZoomFramesPending ==
  Cardinality({i \in 1..Len(rafQueue) : rafQueue[i].kind = "zoom"})

\* s2 lies between s and t, and is not s unless s is t.
Toward(s, s2, t) ==
  /\ Fin(s) /\ Fin(s2) /\ Fin(t)
  /\ (s <= s2 /\ s2 <= t) \/ (t <= s2 /\ s2 <= s)
  /\ s # t => s2 # s

\* An animation frame in which a zoom callback runs.
ZoomFrameStep == ZoomFramesPending > 0 /\ lastEv'.type = "frame"

\* The frame moved the scale toward the target scale of the last wheel event
\* and placed the image by that event's anchor.
FrameFollowsLastWheel ==
  /\ Toward(scale, scale', targetScale)
  /\ pos' = computeZoomedPos(natural, scale', lastWheel, container)
  /\ transformRef' = [scale |-> scale', pos |-> pos']

OneZoomFrame ==
  /\ ZoomFramesPending <= 1
  /\ lastEv.type = "wheel" => ZoomFramesPending = 1

\* C17: at most one zoom frame callback is pending at any time: a wheel event
\* leaves exactly one (it cancels the pending one before it requests its
\* own) and a frame requests at most one successor; the frame after a wheel
\* event moves toward the target and the anchor that event set.
C17_OneFrameRetargeted ==
  /\ []OneZoomFrame
  /\ [][ZoomFrameStep => FrameFollowsLastWheel]_vars

\* Before the load, after a resize and a wheel event, a frame has made the
\* scale NaN on its way to the target Infinity.
C17_FrameToNaN ==
  /\ ~Loaded
  /\ lastEv.type = "frame"
  /\ targetScale = Infinity
  /\ scale = NaN
  /\ ZoomFramesPending = 1

\* What holds of C17: one pending zoom frame at most, and after the load
\* every zoom frame follows the last wheel event.
OneFrameRetargetedAfterLoad ==
  /\ []OneZoomFrame
  /\ [][(Loaded /\ ZoomFrameStep) => FrameFollowsLastWheel]_vars

\* A wheel event arrived while a zoom frame was pending.
WheelDuringAnimation ==
  /\ lastEv.type = "wheel"
  /\ Loaded
  /\ scale # lastEv.prevTarget
  /\ ZoomFramesPending = 1

\* The frame's step as C18 states it: a remaining difference under 0.001
\* ends the animation on the target, a larger one is reduced by a quarter
\* and another frame follows.
EaseOrSnap ==
  LET diff == Sub(targetScale, scale)
  IN /\ Fin(diff)
     /\ Abs(diff) * EpsDen < SU =>
          (scale' = targetScale /\ ZoomFramesPending' = 0)
     /\ Abs(diff) * EpsDen >= SU =>
          /\ scale' = scale + RoundDiv(diff * EaseNum, EaseDen)
          /\ Toward(scale, scale', targetScale)
          /\ ZoomFramesPending' = 1

ZoomIdleOnTarget == ZoomFramesPending = 0 /\ scale = targetScale

\* C18: every zoom frame either snaps the scale to the target and requests
\* no frame (difference < 0.001) or moves it a quarter of the difference
\* toward the target, without overshoot, and requests the next; a started
\* animation ends with the scale on the target and no frame pending.
C18_ZoomTerminates ==
  /\ [][ZoomFrameStep => EaseOrSnap]_vars
  /\ (ZoomFramesPending > 0) ~> ZoomIdleOnTarget

\* Before the load, after a resize and a wheel event: the scale is NaN, the
\* target Infinity, and each frame requests the next.
C18_EndlessFrames ==
  /\ ~Loaded
  /\ lastEv.type = "frame"
  /\ minScale = Infinity
  /\ scale = NaN
  /\ transformRef.scale = NaN
  /\ ZoomFramesPending = 1
  /\ events = MaxEvents

\* What holds of C18: once the image has loaded, every frame eases or snaps
\* and the animation ends on its target.
ZoomTerminatesAfterLoad ==
  /\ [][(Loaded /\ ZoomFrameStep) => EaseOrSnap]_vars
  /\ (Loaded /\ ZoomFramesPending > 0) ~> ZoomIdleOnTarget

\* ----------------------------------------------------------- teardown
\* C19: a listPins response, success or failure, that arrives after the
\* component has been torn down leaves the local pin list as it was.
C19_LateListIgnored ==
  (appEv.kind = "list" /\ appEv.type \in {"ok", "err"} /\ cancelled) =>
    pins = appEv.pins

\* The list arrived after the teardown, with pins the local list lacks.
C19_Witness ==
  /\ appEv.kind = "list"
  /\ appEv.type = "ok"
  /\ cancelled
  /\ serverPins # pins
  /\ pins = appEv.pins

\* ------------------------------------------------------ reconciliation
PatchKinds == {"move", "update", "water"}

\* C20: when a successful move, update or water response for pin p is
\* delivered, the local copy of p has the response's value in every field
\* the response carries and its own value in the others, and every other pin
\* is unchanged; so after two requests for one pin have completed, in either
\* order, the local copy agrees with the response delivered last.
C20_ResponseOverwrites ==
  (appEv.type = "ok" /\ appEv.kind \in PatchKinds) =>
    /\ Len(pins) = Len(appEv.pins)
    /\ \A i \in 1..Len(pins) :
         IF appEv.pins[i].id = appEv.pinId
         THEN /\ \A f \in appEv.keys : pins[i][f] = appEv.pin[f]
              /\ \A f \in PinFields \ appEv.keys : pins[i][f] = appEv.pins[i][f]
         ELSE pins[i] = appEv.pins[i]

\* Two requests for one pin have completed, the response of the one the
\* service handled first delivered last: the local copy is that response
\* and not the service's pin.
C20_Witness ==
  /\ appEv.type = "ok"
  /\ appEv.kind \in PatchKinds
  /\ appEv.keys = PinFields
  /\ ServerHas(appEv.pinId)
  /\ appEv.pin # ServerPin(appEv.pinId)
  /\ \A j \in 1..Len(net) : net[j].pinId # appEv.pinId
  /\ \E i \in 1..Len(pins) : pins[i].id = appEv.pinId /\ pins[i] = appEv.pin
  /\ \E i \in 1..Len(pins) : pins[i].id # appEv.pinId

\* ------------------------------------------------- details panel claims
\* The texts as the claims speak of them.
Blank(t) == \A i \in 1..Len(t) : t[i] \in Whitespace
WholeDays(t) ==
  /\ ~Blank(t)
  /\ \A i \in 1..Len(trim(t)) : trim(t)[i] \in Digits
  /\ \E i \in 1..Len(trim(t)) : trim(t)[i] # "0"
Offending(draft) ==
  {k \in {"name"} : Blank(draft.name)}
    \cup {k \in {"type"} : Blank(draft.type)}
    \cup {k \in {"wateringIntervalDays"} :
            ~Blank(draft.wateringIntervalDays)
              /\ ~WholeDays(draft.wateringIntervalDays)}

NonNumeric(t) == \E i \in 1..Len(t) : t[i] \notin Digits \cup Whitespace \cup {"-", "."}
SavedWith(text(_)) ==
  panel.ev = "save" /\ text(panel.before.draft.wateringIntervalDays)
AskedForUnknown ==
  /\ panel.p.sent = panel.before.sent + 1
  /\ "wateringIntervalDays" \in panel.p.awaited[Len(panel.p.awaited)].keys
  /\ panel.p.awaited[Len(panel.p.awaited)].wateringIntervalDays = NoInterval

DragSessionLive == dragRef.draggingPinId # NoPin

\* A drag session appears only at a pointer-down on a pin in edit mode, the
\* image size known.
SessionFromEditPointerDown ==
  ~DragSessionLive /\ DragSessionLive' =>
    /\ appEv'.type = "pointerdown"
    /\ mode = "edit"
    /\ hasImageSize
    /\ dragRef'.pointerId = appEv'.pointerId

\* A drag session goes only at the pointer-up or pointer-cancel of its pointer.
SessionUntilOwnPointerUp ==
  DragSessionLive /\ dragRef' # dragRef /\ dragRef'.pointerId # dragRef.pointerId =>
    /\ appEv'.type = "pointerup"
    /\ appEv'.pointerId = dragRef.pointerId
    /\ ~DragSessionLive'

\* In view mode a pointer event neither moves a pin nor asks for a move.
NoMoveInViewMode ==
  mode = "view" /\ appEv'.type \in {"pointerdown", "pointermove", "pointerup"} =>
    pins' = pins /\ reqCount' = reqCount

\* C23: a drag session is created only by a pointer-down on a pin in edit
\* mode with the image size known, ends only at the pointer-up or
\* pointer-cancel of its own pointer, and no live position update and no move
\* commit is emitted while the mode is view.
C23_RepositionInEditOnly ==
  /\ [][SessionFromEditPointerDown]_vars
  /\ [][SessionUntilOwnPointerUp]_vars
  /\ [][NoMoveInViewMode]_vars

\* The mode was view when a pointer-move of the session's pointer moved the pin.
C23_MovedInViewMode ==
  /\ appEv.type = "pointermove"
  /\ appEv.mode = "view"
  /\ mode = "view"
  /\ DragSessionLive
  /\ dragRef.hasMoved
  /\ pins # appEv.pins

\* ------------------------------------------- the marker layer's transform
IsSetTransform(cb) == cb.kind = "setTransform"
PendingTransforms == SelectSeq(rafQueue, IsSetTransform)

\* The transform the marker layer has once the callbacks that wait have run.
LatestPending ==
  IF PendingTransforms = <<>> THEN transformState
  ELSE PendingTransforms[Len(PendingTransforms)].t

\* Every transform emitted reaches the layer: the one emitted last is the
\* layer's or is the last of those that wait.
LatestEmittedPending ==
  /\ transformRef = [scale |-> scale, pos |-> pos]
  /\ LatestPending = transformRef

\* A deferred update gives the layer the transform that was the latest
\* emitted when the frame began, never one emitted before the layer's own.
LayerTakesLatest ==
  transformState' # transformState =>
    /\ lastEv'.type = "frame"
    /\ PendingTransforms # <<>>
    /\ transformState' = transformRef

LayerSettled == transformState = [scale |-> scale, pos |-> pos]

\* C24: the marker layer's transform is updated in emission order, a
\* deferred update never putting an older transform in the place of a newer
\* one, and once the engine stops emitting it equals the engine's current
\* (scale, offset) for good.
C24_LayerFollowsEngine ==
  /\ []LatestEmittedPending
  /\ [][LayerTakesLatest]_vars
  /\ <>[]LayerSettled

\* A frame gave the layer a transform while a newer one, emitted by the zoom
\* step of the same frame, waits for the next frame.
C24_Witness ==
  /\ lastEv.type = "frame"
  /\ Loaded
  /\ transformState # InitTransform
  /\ transformState # transformRef
  /\ PendingTransforms # <<>>
  /\ LatestPending = transformRef

\* ------------------------------------------------- resize and zoom frames
\* The cover-fit, centered transform of a loaded image.
CenteredFit ==
  /\ IsCoverScale(minScale)
  /\ scale = minScale
  /\ 2 * pos.x = Px(container[1]) - ScaledW(natural, minScale)
  /\ 2 * pos.y = Px(container[2]) - ScaledH(natural, minScale)
  /\ transformRef = [scale |-> scale, pos |-> pos]

\* The frame that follows a resize of the loaded image leaves the transform
\* cover-fit and centered.
CenteredAfterNextFrame ==
  Loaded /\ lastEv.type = "resize" /\ lastEv'.type = "frame" => CenteredFit'

\* C25: after a resize of the container the transform is the cover-fit,
\* centered one, and the animation frame that follows leaves it so, also
\* when a zoom frame was waiting at the resize.
C25_ResizeCentersForGood ==
  /\ [](Loaded /\ lastEv.type = "resize" => CenteredFit)
  /\ [][CenteredAfterNextFrame]_vars

\* The zoom frame that waited at the resize has run after it: the scale is
\* the cover-fit one and the image is off centre.
C25_OffCentreAfterResize ==
  /\ Loaded
  /\ lastEv.type = "frame"
  /\ events = 2
  /\ container = <<4, 6>>
  /\ scale = minScale
  /\ targetScale = minScale
  /\ 2 * pos.x # Px(container[1]) - ScaledW(natural, minScale)
  /\ rafQueue = <<SetTransformCb(transformRef)>>

\* ------------------------------------------------------ pin list claims
Ids(ps) == {ps[i].id : i \in 1..Len(ps)}

\* The pins of the list that a createPin response has put there: the service
\* held the others from the start.
CreatedIn(ps) == Ids(ps) \ Ids(InitialServerPins)

CreatedPinLeavesOnlyDeleted ==
  \A id \in CreatedIn(pins) :
    id \notin Ids(pins') =>
      appEv'.type = "ok" /\ appEv'.kind = "delete" /\ appEv'.pinId = id

\* C26: a pin that a createPin response has put into the local list stays
\* there until a delete of that pin has succeeded, whatever responses are
\* delivered in between.
C26_CreatedPinStays == [][CreatedPinLeavesOnlyDeleted]_vars

\* The response to the initial listPins request was delivered after that to
\* a createPin: the created pin, which the service holds, is gone from the
\* local list.
C26_CreatedPinDropped ==
  /\ appEv.type = "ok"
  /\ appEv.kind = "list"
  /\ \E id \in CreatedIn(appEv.pins) : id \notin Ids(pins) /\ ServerHas(id)

\* C27: a drag session whose pointer has crossed the threshold issues
\* exactly one commit, for its own pin, when its own pointer is released or
\* cancelled, also when another pointer went down on a pin meanwhile.
C27_NoSessionLost ==
  obs.ended /\ obs.crossed =>
    /\ calls.commits = 1
    /\ ~calls.commit.isNull
    /\ appEv.type = "pointerup" /\ appEv.pointerId = obs.pointerId =>
         /\ reqCount = appEv.reqCount + 1
         /\ net # <<>>
         /\ net[Len(net)].kind = "move"
         /\ net[Len(net)].pinId = obs.pinId

\* A second pointer went down on a pin while the session of the first had
\* crossed the threshold; the first pointer was then released and no commit
\* was issued.
C27_SessionOverwritten ==
  /\ obs.ended
  /\ obs.crossed
  /\ obs.overlapped
  /\ appEv.type = "pointerup"
  /\ appEv.pointerId = obs.pointerId
  /\ calls.commits = 0
  /\ reqCount = appEv.reqCount
  /\ dragRef.draggingPinId # NoPin
  /\ dragRef.pointerId # obs.pointerId

\* C28: a delete of a pin that succeeds while another pin is the selected
\* one leaves selectedPinId and isDetailsOpen as they were.
C28_OtherSelectionKept ==
  (/\ appEv.type = "ok"
   /\ appEv.kind = "delete"
   /\ appEv.sel # NoPin
   /\ appEv.sel # appEv.pinId) =>
    selectedPinId = appEv.sel /\ isDetailsOpen = appEv.open

\* The panel showed pin 2 when the delete of pin 1 succeeded: pin 2 is in the
\* list still, and the panel is closed and nothing is selected.
C28_OtherPanelClosed ==
  /\ appEv.type = "ok"
  /\ appEv.kind = "delete"
  /\ appEv.pinId = 1
  /\ appEv.sel = 2
  /\ appEv.open
  /\ HasPin(2)
  /\ selectedPinId = NoPin
  /\ ~isDetailsOpen

====
